---------------------------- MODULE Spec2Model ----------------------------
(***************************************************************************)
(* Gameplay simulation core of GameDevelopment2: the EntityManager         *)
(* (registry of entity templates and entities), the Messenger (addressed   *)
(* mailbox) and the per-frame UpdateAll pass over the entities.            *)
(*                                                                         *)
(* The program is single threaded.  Handlers are modelled as operators     *)
(* that map a "world" record (the registry and the mailbox) to the SET of  *)
(* worlds the call can produce; the set has more than one element only     *)
(* where the code's behaviour is undefined or unspecified.                 *)
(***************************************************************************)
EXTENDS Integers, Sequences, FiniteSets, Bags, TLC

(***************************************************************************)
(* Program constants                                                       *)
(***************************************************************************)
NO_ID == 0
SYSTEM_ID == 1
FIRST_ENTITY_ID == 2

\* it == mEntities.end()
END == NO_ID

(***************************************************************************)
(* Bounds of the model                                                     *)
(***************************************************************************)
\* CreateEntity is not called once mNextID has reached this value
MaxNextID == 5
\* number of EntityTemplate objects ever constructed
MaxTmplObjs == 2
\* number of DeliverMessage calls in the mailbox specification
MaxSent == 3

\* no step takes mNextID beyond this value in a game on the one-boat level
MaxTickID == 8
\* no step takes mNextID beyond this value in a game on the three-boat level
MaxBattleID == 7
\* no step takes mNextID beyond this value in a game of two boats
MaxDuelID == 7
\* no step takes mNextID beyond this value in the first frames of a game on
\* the three-boat level, and the number of those frames
MaxSquadID == 9
MaxSquadFrames == 4
\* no step takes mNextID beyond this value in a game on the three-boat level
\* in which the player works the boat panel on the third boat
MaxRescueID == 7
\* no step takes mNextID beyond this value in the first frames of a game on
\* the two-boat level with Shield crates, and the number of those frames
MaxGuardID == 8
MaxGuardFrames == 9
\* no step takes mNextID beyond this value in a game with Shield crates only
MaxShieldID == 10
\* no step takes mNextID beyond this value in a game with a reload station
MaxDockID == 8
\* the boats of that game have at most this number of missiles at its start
MaxStartMissiles == 1
\* no step takes mNextID beyond this value in a game with the boat panel
MaxPanelID == 5

\* frameTime of a frame, in seconds
FrameTimes == {2}
\* the duration a Shield is constructed with, in seconds
ShieldDuration == 7

\* template names used by the registry specification
RegTypes == {"Tree", "Tank"}
\* entity ids the callers of the registry try
RegIDs == FIRST_ENTITY_ID .. MaxNextID

VARIABLES
  mEntityTemplates,  \* EntityManager::mEntityTemplates : type name -> template object
  tmplObjs,          \* the EntityTemplate objects ever constructed (index = identity)
  mEntities,         \* EntityManager::mEntities : EntityID -> entity object
  mNextID,           \* EntityManager::mNextID
  mLastError,        \* EntityManager::mLastError
  mMessages,         \* Messenger::mMessages (bag of messages with their recipient)
  mEvadeTimer,       \* the function-local static mEvadeTimer of Boat::UpdateEvade
  scene,             \* Scene: frameTime of the frame, how far Scene::Update has got,
                     \* and the bound on mNextID
  fault,             \* "none", or what undefined behaviour led to
  inPass,            \* TRUE while UpdateAll is iterating
  it,                \* UpdateAll's iterator: key of the next entity, or END
  lastCall,          \* the call made by the last step, with its result
  issued,            \* history: every id CreateEntity has returned
  died,              \* history: ids whose Update returned false in the pass in progress
  sent,              \* history: the messages delivered, in order
  received           \* history: the messages ReceiveMessage has returned

vars == <<mEntityTemplates, tmplObjs, mEntities, mNextID, mLastError, mMessages,
          mEvadeTimer, scene, fault, inPass, it, lastCall, issued, died, sent,
          received>>

(***************************************************************************)
(* Finite maps (std::map)                                                  *)
(***************************************************************************)
EmptyMap == << >>

MapPut(f, k, v) ==
  [x \in (DOMAIN f) \cup {k} |-> IF x = k THEN v ELSE f[x]]

\* std::map::emplace: no effect when the key is already present
MapEmplace(f, k, v) ==
  IF k \in DOMAIN f THEN f ELSE MapPut(f, k, v)

MapErase(f, k) ==
  [x \in (DOMAIN f) \ {k} |-> f[x]]

\* std::remove + erase on a vector
SeqRemove(s, v) ==
  SelectSeq(s, LAMBDA x : x # v)

SeqCount(s, v) ==
  Cardinality({i \in 1..Len(s) : s[i] = v})

SeqRange(s) ==
  {s[i] : i \in 1..Len(s)}

(***************************************************************************)
(* The world record                                                        *)
(***************************************************************************)
World ==
  [tmpls |-> mEntityTemplates, objs |-> tmplObjs, ents |-> mEntities,
   next |-> mNextID, err |-> mLastError, msgs |-> mMessages,
   evade |-> mEvadeTimer, fault |-> fault]

\* a destroyed EntityTemplate object (freed memory)
DeadTemplate == [alive |-> FALSE]

Crashed(w) == w.fault = "crashed"

Crash(w) == [w EXCEPT !.fault = "crashed"]

(***************************************************************************)
(* EntityManager                                                           *)
(***************************************************************************)
\* EntityManager::GetEntity(EntityID): the entity's key, NO_ID for nullptr
GetEntity(w, id) ==
  IF id \in DOMAIN w.ents THEN id ELSE NO_ID

\* EntityManager::GetEntity<T>(EntityID): nullptr also when the dynamic_cast fails
GetEntityAs(w, id, kind) ==
  IF id \in DOMAIN w.ents /\ w.ents[id].kind = kind THEN id ELSE NO_ID

\* EntityManager::GetTemplate(type): the template object, 0 for nullptr
GetTemplate(w, type) ==
  IF type \in DOMAIN w.tmpls THEN w.tmpls[type] ELSE 0

\* Entity::Template() is usable only while the template object exists
TemplateAlive(w, id) ==
  w.objs[w.ents[id].tmpl].alive

\* the counter is two values wide and wraps
NextIDAfter_Wrap(next) ==
  IF next = FIRST_ENTITY_ID + 1 THEN FIRST_ENTITY_ID ELSE next + 1

\* mNextID is not advanced
NextIDAfter_Stuck(next) ==
  next

\* mNextID++.  EntityID is uint32_t: the counter wraps after 2^32 creations,
\* which no run within MaxNextID reaches.
NextIDAfter(next) ==
  next + 1

\* EntityManager::CreateEntityTemplate<T>(type, mesh, ...): proto holds the
\* fields of the derived template class, meshOk whether the mesh loads
CreateEntityTemplate(w, type, proto, meshOk) ==
  LET erased == IF type \in DOMAIN w.tmpls
                  THEN [w EXCEPT !.tmpls = MapErase(w.tmpls, type),
                                 !.objs[w.tmpls[type]] = DeadTemplate]
                  ELSE w
      obj == Len(w.objs) + 1
      tpl == proto @@ [alive |-> TRUE, mType |-> type, mEntities |-> << >>]
  IN IF ~meshOk
       THEN [w |-> [erased EXCEPT !.err = "mesh"], ret |-> 0]
       ELSE [w |-> [erased EXCEPT !.objs = Append(erased.objs, tpl),
                                  !.tmpls = MapPut(erased.tmpls, type, obj)],
             ret |-> obj]

\* the id is taken from the counter before the template is looked up
CreateEntity_AllocFirst(w, templateType, ctor, ctorOk) ==
  LET newID == w.next
      w1 == [w EXCEPT !.next = NextIDAfter(w.next)]
  IN IF templateType \notin DOMAIN w.tmpls
       THEN [w |-> [w1 EXCEPT !.err = "template"], ret |-> NO_ID]
       ELSE LET obj == w.tmpls[templateType]
                entity == ctor @@ [mID |-> newID, tmpl |-> obj]
            IN IF ~ctorOk
                 THEN [w |-> [w1 EXCEPT !.err = "constructor"], ret |-> NO_ID]
                 ELSE [w |-> [w1 EXCEPT !.ents = MapEmplace(w1.ents, newID, entity),
                                        !.objs[obj].mEntities = Append(@, newID)],
                       ret |-> newID]

\* EntityManager::CreateEntity<T>(templateType, ...): ctor holds the fields the
\* constructor of T sets, ctorOk is FALSE when it throws std::runtime_error
CreateEntity(w, templateType, ctor, ctorOk) ==
  IF templateType \notin DOMAIN w.tmpls
    THEN [w |-> [w EXCEPT !.err = "template"], ret |-> NO_ID]
    ELSE LET obj == w.tmpls[templateType]
             newID == w.next
             w1 == [w EXCEPT !.next = NextIDAfter(w.next)]
             entity == ctor @@ [mID |-> newID, tmpl |-> obj]
         IN IF ~ctorOk
              THEN [w |-> [w1 EXCEPT !.err = "constructor"], ret |-> NO_ID]
              ELSE [w |-> [w1 EXCEPT !.ents = MapEmplace(w1.ents, newID, entity),
                                     !.objs[obj].mEntities = Append(@, newID)],
                    ret |-> newID]

\* EntityManager::DestroyEntity(id).  Reading the entity list of a template
\* that no longer exists is undefined: the call aborts, or goes on with the
\* freed memory and erases the entity.
DestroyEntity(w, id) ==
  IF id \notin DOMAIN w.ents
    THEN {[w |-> w, ret |-> FALSE]}
    ELSE IF TemplateAlive(w, id)
      THEN {[w |-> [w EXCEPT !.objs[w.ents[id].tmpl].mEntities = SeqRemove(@, id),
                             !.ents = MapErase(w.ents, id)],
             ret |-> TRUE]}
      ELSE {[w |-> Crash(w), ret |-> FALSE],
            [w |-> [w EXCEPT !.ents = MapErase(w.ents, id), !.fault = "survived"],
             ret |-> TRUE]}


\* what the heap holds after the undefined pop_back()/back() loop has wandered
\* through memory: any of the entities may have been destroyed on the way
RemoveAll(w, S) ==
  [w EXCEPT !.ents = [x \in (DOMAIN w.ents) \ S |-> w.ents[x]],
            !.objs = [i \in DOMAIN w.objs |->
                        IF w.objs[i].alive
                          THEN [w.objs[i] EXCEPT !.mEntities =
                                  SelectSeq(@, LAMBDA x : x \notin S)]
                          ELSE w.objs[i]]]

\* std::vector::pop_back() on an empty vector is undefined: size() wraps and
\* the loop keeps destroying whatever ids it reads until the process dies
PopBackEmpty(w) ==
  {Crash(RemoveAll(w, S)) : S \in SUBSET (DOMAIN w.ents)}

\* the while loop of EntityManager::DestroyEntityTemplate
RECURSIVE DestroyTemplateLoop(_, _)
DestroyTemplateLoop(w, obj) ==
  IF Crashed(w) \/ Len(w.objs[obj].mEntities) = 0
    THEN {w}
    ELSE LET list == w.objs[obj].mEntities
             destroyed == DestroyEntity(w, list[Len(list)])
         IN UNION {IF Crashed(d.w)
                     THEN {d.w}
                     ELSE LET rest == d.w.objs[obj].mEntities
                          IN IF Len(rest) = 0
                               THEN PopBackEmpty(d.w)
                               ELSE DestroyTemplateLoop(
                                      [d.w EXCEPT !.objs[obj].mEntities =
                                         SubSeq(rest, 1, Len(rest) - 1)], obj)
                   : d \in destroyed}

\* EntityManager::DestroyEntityTemplate(type)
DestroyEntityTemplate(w, type) ==
  IF type \notin DOMAIN w.tmpls
    THEN {[w |-> w, ret |-> FALSE]}
    ELSE LET obj == w.tmpls[type]
         IN {IF Crashed(l)
               THEN [w |-> l, ret |-> FALSE]
               ELSE [w |-> [l EXCEPT !.tmpls = MapErase(l.tmpls, type),
                                     !.objs[obj] = DeadTemplate],
                     ret |-> TRUE]
             : l \in DestroyTemplateLoop(w, obj)}

(***************************************************************************)
(* Messenger                                                               *)
(***************************************************************************)
\* struct Message {from, type, data}, stored under its recipient.  tag is a
\* history field the program does not have.
MakeMessage(from, to, type, data, tag) ==
  [to |-> to, from |-> from, type |-> type, data |-> data, tag |-> tag]

NoMessage == [type |-> "none"]

\* payload std::monostate
NoData == [none |-> TRUE]

\* the messages pending for a recipient
Pending(msgs, to) ==
  {m \in BagToSet(msgs) : m.to = to}

\* Messenger::DeliverMessage(from, to, type, data)
DeliverMessage(w, from, to, type, data, tag) ==
  [w EXCEPT !.msgs = @ (+) SetToBag({MakeMessage(from, to, type, data, tag)})]

\* every message of the recipient is erased (erase by key)
ReceiveMessage_EraseKey(w, to, msg) ==
  IF Pending(w.msgs, to) = {}
    THEN {[w |-> w, ret |-> FALSE, msg |-> msg]}
    ELSE {[w |-> [w EXCEPT !.msgs = @ (-) [n \in Pending(@, to) |-> @[n]]],
           ret |-> TRUE, msg |-> m]
          : m \in Pending(w.msgs, to)}

\* the message is returned and left in the mailbox
ReceiveMessage_NoErase(w, to, msg) ==
  IF Pending(w.msgs, to) = {}
    THEN {[w |-> w, ret |-> FALSE, msg |-> msg]}
    ELSE {[w |-> w, ret |-> TRUE, msg |-> m] : m \in Pending(w.msgs, to)}

\* the lookup creates an entry for a recipient that has none (as operator[]
\* of a map does)
ReceiveMessage_MissInserts(w, to, msg) ==
  IF Pending(w.msgs, to) = {}
    THEN {[w |-> DeliverMessage(w, NO_ID, to, "Pause", NoData, 0),
           ret |-> FALSE, msg |-> msg]}
    ELSE {[w |-> [w EXCEPT !.msgs = @ (-) SetToBag({m})], ret |-> TRUE, msg |-> m]
          : m \in Pending(w.msgs, to)}

\* Messenger::ReceiveMessage(to, msg): multimap::find returns some element
\* with the key, which one is unspecified.  msg is the caller's Message.
ReceiveMessage(w, to, msg) ==
  IF Pending(w.msgs, to) = {}
    THEN {[w |-> w, ret |-> FALSE, msg |-> msg]}
    ELSE {[w |-> [w EXCEPT !.msgs = @ (-) SetToBag({m})], ret |-> TRUE, msg |-> m]
          : m \in Pending(w.msgs, to)}


(***************************************************************************)
(* Entity updates                                                          *)
(*                                                                         *)
(* Positions and directions are not modelled: every test on a distance, an *)
(* angle or a line of sight may come out either way.  Times are whole      *)
(* seconds.                                                                *)
(***************************************************************************)
\* what a call of Update produces: the world after it, its return value, and
\* (history) the tags of the messages it received and what handling each of
\* them did
Res(w, ret) ==
  [w |-> w, ret |-> ret, got |-> {}, log |-> << >>]

\* replaces the entity object stored under id
SetEntity(w, id, e) ==
  [w EXCEPT !.ents[id] = e]

\* EntityManager::GetAllBoatEntities(exclude): the live Boat entities
AllBoats(w, exclude) ==
  {b \in DOMAIN w.ents : w.ents[b].kind = "Boat" /\ b # exclude}

\* EntityManager::GetAllCratesEntities()
AllCrates(w) ==
  {c \in DOMAIN w.ents : w.ents[c].kind = "RandomCrate"}

\* EntityManager::GetAllMinesEntities()
AllMines(w) ==
  {c \in DOMAIN w.ents : w.ents[c].kind = "SeaMine"}

\* EntityManager::GetAllReloadStationEntities()
AllReloadStations(w) ==
  {c \in DOMAIN w.ents : w.ents[c].kind = "ReloadStation"}

\* Entity::Update
BaseUpdate(w, id, dt) ==
  {Res(w, TRUE)}

\* the missile goes on flying after it has hit a boat
MissileUpdate_Through(w, id, dt) ==
  LET launcher == w.ents[id].mLaunchingBoatID
  IN {Res(w, FALSE), Res(w, TRUE)}
     \cup {Res(DeliverMessage(w, id, b, "Hit", [launchingBoatID |-> launcher], "new"),
               TRUE) : b \in AllBoats(w, NO_ID) \ {launcher}}

\* Missile::Update: the missile has fallen below the minimum altitude, or is
\* within range of a boat other than its launcher, or neither
MissileUpdate(w, id, dt) ==
  LET launcher == w.ents[id].mLaunchingBoatID
  IN {Res(w, FALSE)}
     \cup {Res(DeliverMessage(w, id, b, "Hit", [launchingBoatID |-> launcher], "new"),
               FALSE) : b \in AllBoats(w, NO_ID) \ {launcher}}
     \cup {Res(w, TRUE)}

\* every boat within collisionRadius is told that it has collected the crate
RandomCrateUpdate_All(w, id, dt) ==
  LET Send[S \in SUBSET AllBoats(w, NO_ID)] ==
        IF S = {} THEN w
        ELSE LET b == CHOOSE x \in S : \A y \in S : x <= y
             IN DeliverMessage(Send[S \ {b}], id, b, "CrateCollected",
                               [type |-> w.ents[id].mCrateType], "new")
  IN {Res(Send[S], FALSE) : S \in SUBSET AllBoats(w, NO_ID) \ {{}}}
     \cup {Res(w, TRUE)}

\* RandomCrate::Update: a boat within collisionRadius collects the crate
RandomCrateUpdate(w, id, dt) ==
  {Res(DeliverMessage(w, id, b, "CrateCollected", [type |-> w.ents[id].mCrateType],
                      "new"), FALSE) : b \in AllBoats(w, NO_ID)}
  \cup {Res(w, TRUE)}

\* SeaMine::Update: a boat within mExplosionRadius sets the mine off
SeaMineUpdate(w, id, dt) ==
  {Res(DeliverMessage(w, id, b, "MineHit", NoData, "new"), FALSE)
   : b \in AllBoats(w, NO_ID)}
  \cup {Res(w, TRUE)}

\* Shield::Update
ShieldUpdate(w, id, dt) ==
  LET s == w.ents[id]
      parentBoat == GetEntityAs(w, s.mParentBoatID, "Boat")
      left == s.mShieldDuration - dt
  IN IF parentBoat = NO_ID \/ w.ents[parentBoat].mState = "Destroyed"
       THEN {Res(w, FALSE)}
       ELSE IF left <= 0
         THEN {Res(DeliverMessage(SetEntity(w, id, [s EXCEPT !.mShieldDuration = left]),
                                  id, s.mParentBoatID, "ShieldDestroyed", NoData, "new"),
                   FALSE)}
         ELSE {Res(SetEntity(w, id, [s EXCEPT !.mShieldDuration = left]), TRUE)}

(***************************************************************************)
(* Boat                                                                    *)
(***************************************************************************)
\* the members the constructor of Boat sets, from its template.  (history)
\* waited is the tick time the boat has been stopped within range of a reload
\* station since it last entered Reloading or was last out of range.
BoatFields(tpl) ==
  [kind |-> "Boat", mState |-> "Inactive", mHP |-> tpl.mMaxHP, mTimer |-> 0,
   mMissilesRemaining |-> 10, mReloading |-> FALSE, mTeam |-> tpl.mTeam,
   mMissileDamage |-> tpl.mMissileDamage, mShieldEntityID |-> NO_ID,
   mTargetBoat |-> NO_ID, mTargetCrate |-> NO_ID, moveToEnemyBoat |-> NO_ID,
   mSinkingAnimationTime |-> 4, waited |-> 0]

\* the members the constructor of Shield sets
ShieldFields(parent, duration) ==
  [kind |-> "Shield", mParentBoatID |-> parent, mShieldDuration |-> duration]

\* mTimer is only ever compared with 5.0f from below (UpdateReloading) and
\* with 0.0f: values above 5 behave as 5
Clock(t) ==
  IF t > 5 THEN 5 ELSE t

\* Boat::BroadcastHelpMessage(enemyEntity): the team-mates within
\* kHelpDistance of the enemy are any subset of the other boats of the team
BroadcastHelpMessage(w, id, enemy) ==
  IF enemy = NO_ID \/ w.ents[enemy].mState = "Destroyed"
    THEN {w}
    ELSE LET mates == {m \in AllBoats(w, id) : w.ents[m].mTeam = w.ents[id].mTeam}
             Send[S \in SUBSET mates] ==
               IF S = {} THEN w
               ELSE LET m == CHOOSE x \in S : \A y \in S : x <= y
                    IN DeliverMessage(Send[S \ {m}], id, m, "Help",
                                      [enemyBoatID |-> enemy], "new")
         IN {Send[S] : S \in SUBSET mates}

\* Boat::AttachShieldMesh
AttachShieldMesh(w, id) ==
  LET c == CreateEntity(w, "Shield", ShieldFields(id, ShieldDuration), TRUE)
  IN [c.w EXCEPT !.ents[id].mShieldEntityID = c.ret]

\* every missile does the same damage
HitDamage_Flat(w, hitByBoat) ==
  20

\* float damage = (hitByBoat) ? hitByBoat->GetMissileDamage() : 20.0f
HitDamage(w, hitByBoat) ==
  IF hitByBoat # NO_ID THEN w.ents[hitByBoat].mMissileDamage ELSE 20

\* the shield is not looked at
OnHit_NoShield(w, id, m) ==
  LET b == w.ents[id]
      hitByBoat == GetEntityAs(w, m.data.launchingBoatID, "Boat")
      hp == b.mHP - HitDamage(w, hitByBoat)
      w1 == SetEntity(w, id, [b EXCEPT !.mHP = hp,
                                !.mState = IF hp <= 0 THEN "Destroyed" ELSE @])
  IN {w1} \cup BroadcastHelpMessage(w1, id, hitByBoat)

\* case MessageType::Hit
OnHit(w, id, m) ==
  LET b == w.ents[id]
  IN IF b.mShieldEntityID = NO_ID
       THEN LET hitByBoat == GetEntityAs(w, m.data.launchingBoatID, "Boat")
                damage == HitDamage(w, hitByBoat)
                hp == b.mHP - damage
                w1 == SetEntity(w, id, [b EXCEPT !.mHP = hp,
                                          !.mState = IF hp <= 0 THEN "Destroyed" ELSE @])
            IN {w1} \cup BroadcastHelpMessage(w1, id, hitByBoat)
       ELSE {w}

\* a shield makes no difference to a mine
OnMineHit_Flat(w, id) ==
  LET b == w.ents[id]
      hp == b.mHP - 50
  IN IF hp <= 0
       THEN SetEntity(w, id, [b EXCEPT !.mHP = hp, !.mState = "Destroyed"])
       ELSE SetEntity(w, id, [b EXCEPT !.mHP = hp, !.mTimer = 2, !.mState = "Wiggle"])

\* case MessageType::MineHit
OnMineHit(w, id) ==
  LET b == w.ents[id]
      hp == b.mHP - (IF b.mShieldEntityID = NO_ID THEN 50 ELSE 25)
  IN IF hp <= 0
       THEN SetEntity(w, id, [b EXCEPT !.mHP = hp, !.mState = "Destroyed"])
       ELSE SetEntity(w, id, [b EXCEPT !.mHP = hp, !.mTimer = 2, !.mState = "Wiggle"])

\* case MessageType::Help
OnHelp(w, id, m) ==
  LET b == w.ents[id]
      enemy == GetEntityAs(w, m.data.enemyBoatID, "Boat")
  IN IF b.mState \notin {"Aim", "Destroyed"}
       THEN IF enemy # NO_ID
              THEN SetEntity(w, id, [b EXCEPT !.moveToEnemyBoat = enemy,
                                       !.mState = "MoveToAssist", !.mTimer = 2])
              ELSE SetEntity(w, id, [b EXCEPT !.moveToEnemyBoat = NO_ID])
       ELSE w

\* case MessageType::CrateCollected.  DestroyEntity is called from within
\* Update.
OnCrateCollected(w, id, m) ==
  LET b == w.ents[id]
      done(x) == [x EXCEPT !.ents[id].mTargetCrate = NO_ID]
  IN CASE m.data.type = "Missile" ->
            {done(SetEntity(w, id, [b EXCEPT !.mMissilesRemaining = @ + 2]))}
       [] m.data.type = "Health" ->
            {done(SetEntity(w, id, [b EXCEPT !.mHP = @ + 20]))}
       [] m.data.type = "Shield" ->
            IF b.mShieldEntityID # NO_ID
              THEN {IF Crashed(d.w) THEN d.w
                    ELSE done(AttachShieldMesh(
                           [d.w EXCEPT !.ents[id].mShieldEntityID = NO_ID], id))
                    : d \in DestroyEntity(w, b.mShieldEntityID)}
              ELSE {done(AttachShieldMesh(w, id))}
       [] OTHER -> {done(w)}

\* Start puts the boat on patrol whatever it was doing
OnStart_Always(w, id) ==
  SetEntity(w, id, [w.ents[id] EXCEPT !.mState = "Patrol"])

\* case MessageType::Start
OnStart(w, id) ==
  IF w.ents[id].mState = "Inactive"
    THEN SetEntity(w, id, [w.ents[id] EXCEPT !.mState = "Patrol"]) ELSE w

\* the switch on message.type in Boat::Update
HandleMessage(w, id, m) ==
  LET b == w.ents[id]
  IN CASE m.type = "Start" -> {OnStart(w, id)}
       [] m.type = "Evade" ->
            {IF b.mState \notin {"Inactive", "Destroyed"}
               THEN SetEntity(w, id, [b EXCEPT !.mState = "Evade"]) ELSE w}
       [] m.type = "Stop" ->
            {SetEntity(w, id, [b EXCEPT !.mState = "Inactive"])}
       [] m.type = "Hit" -> OnHit(w, id, m)
       [] m.type = "MineHit" -> {OnMineHit(w, id)}
       [] m.type = "Help" -> {OnHelp(w, id, m)}
       [] m.type = "Reload" ->
            {SetEntity(w, id, [b EXCEPT !.mState = "Reloading",
                                        !.waited = IF b.mState = "Reloading" THEN @ ELSE 0])}
       [] m.type = "CrateCollected" -> OnCrateCollected(w, id, m)
       [] m.type = "TargetPoint" ->
            {SetEntity(w, id, [b EXCEPT !.mState = "TargetPoint"])}
       [] m.type = "ShieldDestroyed" ->
            {SetEntity(w, id, [b EXCEPT !.mShieldEntityID = NO_ID])}
       [] m.type = "Die" ->
            {SetEntity(w, id, [b EXCEPT !.mState = "Destroyed"])}
       [] OTHER -> {w}

\* (history) one pass through the switch: the message, the boat before and
\* after it, the Shield entities of the boat that are in the registry when
\* the message is taken, and the number of messages delivered meanwhile
Handled(m, w, h, id) ==
  [type |-> m.type, from |-> m.from, data |-> m.data, before |-> w.ents[id],
   after |-> h.ents[id],
   shields |-> {s \in DOMAIN w.ents : /\ w.ents[s].kind = "Shield"
                                      /\ w.ents[s].mParentBoatID = id},
   sent |-> BagCardinality(h.msgs) - BagCardinality(w.msgs)]

\* while (gMessenger->ReceiveMessage(GetID(), &message)) switch (message.type)
RECURSIVE DrainLoop(_, _)
DrainLoop(w, id) ==
  UNION {IF ~r.ret THEN {[w |-> r.w, got |-> {}, log |-> << >>]}
         ELSE UNION {IF Crashed(h)
                       THEN {[w |-> h, got |-> {r.msg.tag},
                              log |-> <<Handled(r.msg, r.w, h, id)>>]}
                       ELSE {[w |-> d.w, got |-> d.got \cup {r.msg.tag},
                              log |-> <<Handled(r.msg, r.w, h, id)>> \o d.log]
                             : d \in DrainLoop(h, id)}
                     : h \in HandleMessage(r.w, id, r.msg)}
         : r \in ReceiveMessage(w, id, NoMessage)}

\* at most one message is fetched in an update
DrainMessages_Once(w, id) ==
  UNION {IF ~r.ret THEN {[w |-> r.w, got |-> {}, log |-> << >>]}
         ELSE {[w |-> h, got |-> {r.msg.tag}, log |-> <<Handled(r.msg, r.w, h, id)>>]
               : h \in HandleMessage(r.w, id, r.msg)}
         : r \in ReceiveMessage(w, id, NoMessage)}

\* the message handling part of Boat::Update
DrainMessages(w, id) ==
  DrainLoop(w, id)

\* Boat::CheckForEnemy: a boat of another team that is not Destroyed and is
\* in sight, or NO_ID
CheckForEnemy(w, id) ==
  {NO_ID} \cup {e \in AllBoats(w, id) : /\ w.ents[e].mTeam # w.ents[id].mTeam
                                        /\ w.ents[e].mState # "Destroyed"}

\* case State::Patrol: UpdatePatrol, then CheckForEnemy
BoatPatrol(w, id, dt) ==
  LET b == w.ents[id]
      b1 == IF b.mMissilesRemaining <= 0 /\ ~b.mReloading
              THEN [b EXCEPT !.mState = "Reloading", !.waited = 0]
              ELSE [b EXCEPT !.mTimer = Clock(@ + dt)]
  IN {IF enemyID # NO_ID
        THEN SetEntity(w, id, [b1 EXCEPT !.mTimer = 2, !.mTargetBoat = enemyID,
                                         !.mState = "Aim"])
        ELSE SetEntity(w, id, b1)
      : enemyID \in CheckForEnemy(w, id)}

\* the count is decremented without a test
UseMissile_Unchecked(b) ==
  [b EXCEPT !.mMissilesRemaining = @ - 1]

\* Boat::UseMissile
UseMissile(b) ==
  IF b.mMissilesRemaining > 0 THEN [b EXCEPT !.mMissilesRemaining = @ - 1] ELSE b

\* Boat::UpdateAim
BoatAim(w, id, dt) ==
  LET b == [w.ents[id] EXCEPT !.mTimer = @ - dt]
      enemyPtr == GetEntityAs(w, b.mTargetBoat, "Boat")
  IN IF enemyPtr # NO_ID
       THEN IF b.mTimer <= 0
              THEN LET c == CreateEntity(w, "Missile",
                              [kind |-> "Missile", mLaunchingBoatID |-> NO_ID], TRUE)
                       w1 == IF c.ret # NO_ID
                               THEN [c.w EXCEPT !.ents[c.ret].mLaunchingBoatID = id]
                               ELSE c.w
                   IN {SetEntity(w1, id, [UseMissile(b) EXCEPT !.mState = "Evade"])}
              ELSE {SetEntity(w, id, b)}
       ELSE {SetEntity(w, id, [b EXCEPT !.mState = "Patrol"])}

\* Boat::FindNearestCrate(75.0f): a crate within the distance, or nullptr
FindNearestCrate(w) ==
  {NO_ID} \cup AllCrates(w)

\* Boat::UpdateEvade.  mEvadeTimer is a function-local static: one timer for
\* all boats.  The evade point has been reached, or not.
BoatEvade(w, id, dt) ==
  LET b == [w.ents[id] EXCEPT !.mTimer = Clock(@ + dt)]
      left == w.evade - dt
      leave == {[SetEntity(w, id, [b EXCEPT !.mTargetCrate = c,
                                            !.mState = "PickupCrate"])
                 EXCEPT !.evade = 5] : c \in FindNearestCrate(w)}
      stay == {[SetEntity(w, id, b) EXCEPT !.evade = left]}
  IN IF left <= 0 THEN leave ELSE leave \cup stay

\* Boat::ReloadMissiles
ReloadMissiles(b) ==
  [b EXCEPT !.mMissilesRemaining = 10]

\* Boat::UpdateReloading: the nearest reload station is within 40 units, or
\* farther away
BoatReloading(w, id, dt) ==
  LET b == w.ents[id]
      t == Clock(b.mTimer + dt)
      waited == Clock(b.waited + dt)
  IN IF AllReloadStations(w) # {}
       THEN {SetEntity(w, id,
               IF t >= 5
                 THEN [ReloadMissiles(b) EXCEPT !.mState = "Patrol", !.mTimer = 0,
                                                !.mReloading = FALSE,
                                                !.waited = waited]
                 ELSE [b EXCEPT !.mTimer = t, !.waited = waited]),
             SetEntity(w, id, [b EXCEPT !.mTimer = 0, !.waited = 0])}
       ELSE {SetEntity(w, id, [b EXCEPT !.mState = "Patrol", !.mReloading = FALSE,
                                        !.mTimer = 0])}

\* Boat::UpdateTargetPoint
BoatTargetPoint(w, id, dt) ==
  {SetEntity(w, id, [w.ents[id] EXCEPT !.mState = "Patrol"]), w}

\* Boat::UpdatePickupCrate.  mTargetCrate is a pointer: once the crate has
\* been destroyed, mTargetCrate->GetID() reads freed memory.
BoatPickupCrate(w, id, dt) ==
  LET b == w.ents[id]
      patrol == SetEntity(w, id, [b EXCEPT !.mState = "Patrol"])
  IN IF b.mTargetCrate = NO_ID
       THEN {patrol}
       ELSE IF GetEntityAs(w, b.mTargetCrate, "RandomCrate") # NO_ID
         THEN {patrol, w}
         ELSE {Crash(w), [patrol EXCEPT !.fault = "survived"],
               [w EXCEPT !.fault = "survived"]}

\* Boat::UpdateWiggle
BoatWiggle(w, id, dt) ==
  LET b == [w.ents[id] EXCEPT !.mTimer = @ - dt]
  IN {SetEntity(w, id, IF b.mTimer <= 0 THEN [b EXCEPT !.mState = "Patrol"] ELSE b)}

\* Boat::UpdateMoveToAssist.  moveToEnemyBoat is a pointer: once that boat
\* has been destroyed, moveToEnemyBoat->GetState() reads freed memory.
BoatMoveToAssist(w, id, dt) ==
  LET b == w.ents[id]
      patrol == SetEntity(w, id, [b EXCEPT !.mState = "Patrol"])
      aim == SetEntity(w, id, [b EXCEPT !.mState = "Aim", !.mTimer = 2])
  IN IF b.moveToEnemyBoat = NO_ID
       THEN {patrol}
       ELSE IF GetEntityAs(w, b.moveToEnemyBoat, "Boat") # NO_ID
         THEN IF w.ents[b.moveToEnemyBoat].mState = "Destroyed"
                THEN {patrol}
                ELSE {aim, w}
         ELSE {Crash(w)}
              \cup {[x EXCEPT !.fault = "survived"] : x \in {patrol, aim, w}}

\* case State::Destroyed: DestructionBehaviour, return !shouldDestroy
BoatDestroyed(w, id, dt) ==
  LET b == w.ents[id]
  IN IF b.mSinkingAnimationTime > 0
       THEN [w |-> SetEntity(w, id, [b EXCEPT !.mSinkingAnimationTime = @ - dt]),
             ret |-> TRUE]
       ELSE [w |-> SetEntity(w, id, [b EXCEPT !.mSinkingAnimationTime = 4]),
             ret |-> FALSE]

\* the switch on mState in Boat::Update
BoatBehaviour(w, id, dt) ==
  LET st == w.ents[id].mState
      keep(S) == {[w |-> x, ret |-> TRUE] : x \in S}
  IN CASE st = "Patrol" -> keep(BoatPatrol(w, id, dt))
       [] st = "Aim" -> keep(BoatAim(w, id, dt))
       [] st = "Evade" -> keep(BoatEvade(w, id, dt))
       [] st = "Reloading" -> keep(BoatReloading(w, id, dt))
       [] st = "TargetPoint" -> keep(BoatTargetPoint(w, id, dt))
       [] st = "PickupCrate" -> keep(BoatPickupCrate(w, id, dt))
       [] st = "Wiggle" -> keep(BoatWiggle(w, id, dt))
       [] st = "MoveToAssist" -> keep(BoatMoveToAssist(w, id, dt))
       [] st = "Destroyed" -> {BoatDestroyed(w, id, dt)}
       [] OTHER -> keep({w})

\* Boat::Update
BoatUpdate(w, id, dt) ==
  UNION {IF Crashed(d.w)
           THEN {[w |-> d.w, ret |-> TRUE, got |-> d.got, log |-> d.log]}
           ELSE {[w |-> r.w, ret |-> r.ret, got |-> d.got, log |-> d.log]
                 : r \in BoatBehaviour(d.w, id, dt)}
         : d \in DrainMessages(w, id)}

\* the virtual call entity->Update(frameTime)
EntityUpdate(w, id, dt) ==
  CASE w.ents[id].kind = "Missile" -> MissileUpdate(w, id, dt)
    [] w.ents[id].kind = "Boat" -> BoatUpdate(w, id, dt)
    [] w.ents[id].kind = "Shield" -> ShieldUpdate(w, id, dt)
    [] w.ents[id].kind = "RandomCrate" -> RandomCrateUpdate(w, id, dt)
    [] w.ents[id].kind = "SeaMine" -> SeaMineUpdate(w, id, dt)
    [] OTHER -> BaseUpdate(w, id, dt)

(***************************************************************************)
(* EntityManager::UpdateAll                                                *)
(***************************************************************************)
\* mEntities.begin()
FirstKey(ents) ==
  IF DOMAIN ents = {} THEN END
  ELSE CHOOSE k \in DOMAIN ents : \A j \in DOMAIN ents : k <= j

\* the iterator is advanced twice
KeyAfter_Twice(ents, k) ==
  LET later == {j \in DOMAIN ents : j > k}
      first == CHOOSE j \in later : \A i \in later : j <= i
      rest == later \ {first}
  IN IF later = {} \/ rest = {} THEN END
     ELSE CHOOSE j \in rest : \A i \in rest : j <= i

\* ++it
KeyAfter(ents, k) ==
  LET later == {j \in DOMAIN ents : j > k}
  IN IF later = {} THEN END
     ELSE CHOOSE j \in later : \A i \in later : j <= i

\* the entity stays in the registry after its Update has returned false
DestroyIfDone_Keep(u, id) ==
  {u.w}

\* if (!entity->Update(frameTime)) DestroyEntity(entity->GetID())
DestroyIfDone(u, id) ==
  IF u.ret \/ Crashed(u.w)
    THEN {u.w}
    ELSE {d.w : d \in DestroyEntity(u.w, id)}

\* The iterator was advanced before the update.  If the update erased the
\* node it points to, using it is undefined: the process aborts, or the loop
\* goes on from a later node or stops.
IteratorAfter(w, nxt) ==
  IF Crashed(w) \/ nxt = END \/ nxt \in DOMAIN w.ents
    THEN {[w |-> w, it |-> nxt]}
    ELSE {[w |-> Crash(w), it |-> nxt]}
         \cup {[w |-> [w EXCEPT !.fault = "survived"], it |-> k]
               : k \in {j \in DOMAIN w.ents : j > nxt} \cup {END}}

\* one iteration of the loop in UpdateAll, for the entity the iterator is at
UpdateOne(w, id, dt) ==
  LET nxt == KeyAfter(w.ents, id)
  IN UNION {UNION {{[w |-> i.w, it |-> i.it, ret |-> u.ret, got |-> u.got,
                      log |-> u.log]
                    : i \in IteratorAfter(d, nxt)}
                   : d \in DestroyIfDone(u, id)}
            : u \in EntityUpdate(w, id, dt)}

(***************************************************************************)
(* History of the mailbox: when a message is due                           *)
(*   "new"   delivered by the update in progress                           *)
(*   "now"   delivered in this pass, before its recipient's update         *)
(*   "next"  delivered in this pass, after its recipient's update          *)
(*   "due"   delivered in the pass before, after its recipient's update,   *)
(*           or between two passes                                         *)
(*   "late"  a pass has ended since the message was due                    *)
(***************************************************************************)
\* applies the function f to every message of the bag
RetagBag(B, f) ==
  [x \in {f[m] : m \in BagToSet(B)} |->
     BagCardinality([m \in {n \in BagToSet(B) : f[n] = x} |-> B[m]])]

\* the mailbox after the update of entity cur
AfterUpdate(B, cur) ==
  RetagBag(B, [m \in BagToSet(B) |->
                 IF m.tag = "new"
                 THEN [m EXCEPT !.tag = IF m.to <= cur THEN "next" ELSE "now"]
                 ELSE m])

\* the mailbox after the last update of a pass
AfterPass(B) ==
  RetagBag(B, [m \in BagToSet(B) |->
                 CASE m.tag \in {"now", "due"} -> [m EXCEPT !.tag = "late"]
                   [] m.tag = "next" -> [m EXCEPT !.tag = "due"]
                   [] OTHER -> m])

Stamp(w, cur, nxt) ==
  [w EXCEPT !.msgs = IF nxt = END /\ ~Crashed(w) THEN AfterPass(AfterUpdate(@, cur))
                     ELSE AfterUpdate(@, cur)]

\* what Scene::Update may spawn
SpawnKinds ==
  {"Missile", "Health", "Shield", "SeaMine"}

\* the Scene before its first Update: no frame in progress.  limit, spawn and
\* framesLeft bound a run: the highest entity ID, the kinds of crate and mine
\* that the random spawn produces, and (if counted) the number of frames.
\* keys holds what the player does on the keyboard, panel the boats that the
\* player selects in the boat panel.
SceneIdle(limit) ==
  [frameTime |-> 0, stage |-> "idle", limit |-> limit, spawn |-> SpawnKinds,
   counted |-> FALSE, framesLeft |-> 0, keys |-> {"none", "Key_1"},
   panel |-> FIRST_ENTITY_ID..limit]

(***************************************************************************)
(* Steps                                                                   *)
(***************************************************************************)
Commit(w) ==
  /\ mEntityTemplates' = w.tmpls
  /\ tmplObjs' = w.objs
  /\ mEntities' = w.ents
  /\ mNextID' = w.next
  /\ mLastError' = w.err
  /\ mMessages' = w.msgs
  /\ mEvadeTimer' = w.evade
  /\ fault' = w.fault

\* the registry and the mailbox are as in w
IsWorld(w) ==
  /\ mEntityTemplates = w.tmpls
  /\ tmplObjs = w.objs
  /\ mEntities = w.ents
  /\ mNextID = w.next
  /\ mLastError = w.err
  /\ mMessages = w.msgs
  /\ mEvadeTimer = w.evade
  /\ fault = w.fault

Running ==
  fault # "crashed"

Call(op, arg, ret) ==
  [op |-> op, arg |-> arg, ret |-> ret]

ApiCreateEntityTemplate(type, proto, meshOk) ==
  /\ Running /\ ~inPass
  /\ Len(tmplObjs) < MaxTmplObjs
  /\ LET r == CreateEntityTemplate(World, type, proto, meshOk)
     IN /\ Commit(r.w)
        /\ lastCall' = Call("CreateEntityTemplate", type, r.ret)
  /\ UNCHANGED <<scene, inPass, it, issued, died, sent, received>>

ApiCreateEntity(type, ctor, ctorOk) ==
  /\ Running /\ ~inPass
  /\ mNextID < MaxNextID
  /\ LET r == CreateEntity(World, type, ctor, ctorOk)
     IN /\ Commit(r.w)
        /\ lastCall' = Call("CreateEntity", type, r.ret)
        /\ issued' = issued \cup ({r.ret} \ {NO_ID})
  /\ UNCHANGED <<scene, inPass, it, died, sent, received>>

ApiDestroyEntity(id) ==
  /\ Running /\ ~inPass
  /\ \E r \in DestroyEntity(World, id) :
       /\ Commit(r.w)
       /\ lastCall' = Call("DestroyEntity", id, r.ret)
  /\ UNCHANGED <<scene, inPass, it, issued, died, sent, received>>

ApiDestroyEntityTemplate(type) ==
  /\ Running /\ ~inPass
  /\ \E r \in DestroyEntityTemplate(World, type) :
       /\ Commit(r.w)
       /\ lastCall' = Call("DestroyEntityTemplate", type, r.ret)
  /\ UNCHANGED <<scene, inPass, it, issued, died, sent, received>>

\* UpdateAll(frameTime): for (auto it = mEntities.begin(); it != mEntities.end();)
BeginUpdateAll(dt) ==
  /\ Running /\ ~inPass
  /\ scene' = [scene EXCEPT !.frameTime = dt]
  /\ it' = FirstKey(mEntities)
  /\ inPass' = (FirstKey(mEntities) # END)
  /\ died' = {}
  /\ lastCall' = Call("UpdateAll", NO_ID, TRUE)
  /\ UNCHANGED <<mEntityTemplates, tmplObjs, mEntities, mNextID, mLastError,
                 mMessages, mEvadeTimer, fault, issued, sent, received>>

\* the body of the loop in UpdateAll, once
UpdateAllStep ==
  /\ Running /\ inPass
  /\ \E r \in UpdateOne(World, it, scene.frameTime) :
       /\ r.w.next <= scene.limit
       /\ Commit(Stamp(r.w, it, r.it))
       /\ it' = r.it
       /\ inPass' = (r.it # END /\ ~Crashed(r.w))
       /\ died' = IF r.it = END \/ Crashed(r.w) THEN {}
                  ELSE IF r.ret THEN died ELSE died \cup {it}
       /\ lastCall' = Call("Update", it, r.ret) @@ [got |-> r.got, log |-> r.log]
       /\ issued' = issued \cup ((DOMAIN r.w.ents) \ (DOMAIN mEntities))
  /\ UNCHANGED <<scene, sent, received>>

(***************************************************************************)
(* The registry under arbitrary callers                                    *)
(***************************************************************************)
RegProtos == {[class |-> "EntityTemplate"]}

RegCtors == {[kind |-> "Entity"], [kind |-> "Missile", mLaunchingBoatID |-> NO_ID]}

InitReg ==
  /\ mEntityTemplates = EmptyMap
  /\ tmplObjs = << >>
  /\ mEntities = EmptyMap
  /\ mNextID = FIRST_ENTITY_ID
  /\ mLastError = ""
  /\ mMessages = EmptyBag
  /\ mEvadeTimer = 5
  /\ scene = SceneIdle(MaxNextID)
  /\ fault = "none"
  /\ inPass = FALSE
  /\ it = END
  /\ lastCall = Call("none", NO_ID, TRUE)
  /\ issued = {}
  /\ died = {}
  /\ sent = << >>
  /\ received = EmptyBag

NextReg ==
  \/ \E type \in RegTypes, proto \in RegProtos, meshOk \in BOOLEAN :
       ApiCreateEntityTemplate(type, proto, meshOk)
  \/ \E type \in RegTypes, ctor \in RegCtors, ctorOk \in BOOLEAN :
       ApiCreateEntity(type, ctor, ctorOk)
  \/ \E id \in RegIDs : ApiDestroyEntity(id)
  \/ \E type \in RegTypes : ApiDestroyEntityTemplate(type)
  \/ \E dt \in FrameTimes : BeginUpdateAll(dt)
  \/ UpdateAllStep

SpecReg ==
  InitReg /\ [][NextReg]_vars


(***************************************************************************)
(* The running game: the Scene loads a level, then every frame calls       *)
(* UpdateAll and handles the player's input                                *)
(***************************************************************************)
\* the templates of the level file, in the order ParseLevel creates them
LevelTemplates ==
  << [type |-> "BoatA", proto |-> [class |-> "BoatTemplate", mMaxHP |-> 60,
                                   mMissileDamage |-> 30, mTeam |-> "TeamA"]],
     [type |-> "BoatB", proto |-> [class |-> "BoatTemplate", mMaxHP |-> 60,
                                   mMissileDamage |-> 60, mTeam |-> "TeamB"]],
     [type |-> "Missile", proto |-> [class |-> "EntityTemplate"]],
     [type |-> "Shield", proto |-> [class |-> "EntityTemplate"]],
     [type |-> "RandomCrate", proto |-> [class |-> "EntityTemplate"]],
     [type |-> "SeaMine", proto |-> [class |-> "EntityTemplate"]],
     [type |-> "Light", proto |-> [class |-> "EntityTemplate"]],
     [type |-> "ReloadStation", proto |-> [class |-> "EntityTemplate"]] >>

\* level files: the entities of each, by template
PatrolLevel == <<"BoatA">>

BattleLevel == <<"BoatA", "BoatA", "BoatB">>

DuelLevel == <<"BoatA", "BoatB">>

DockLevel == <<"BoatA", "BoatB", "ReloadStation">>

\* the EntityManager and the Messenger as constructed
EmptyWorld ==
  [tmpls |-> EmptyMap, objs |-> << >>, ents |-> EmptyMap, next |-> FIRST_ENTITY_ID,
   err |-> "", msgs |-> EmptyBag, evade |-> 5, fault |-> "none"]

\* ParseLevel: the Templates element
RECURSIVE LoadTemplates(_, _)
LoadTemplates(w, n) ==
  IF n = 0 THEN w
  ELSE CreateEntityTemplate(LoadTemplates(w, n - 1), LevelTemplates[n].type,
                            LevelTemplates[n].proto, TRUE).w

\* ParseLevel: the Entities element
RECURSIVE LoadEntities(_, _, _)
LoadEntities(w, boats, n) ==
  IF n = 0 THEN w
  ELSE LET v == LoadEntities(w, boats, n - 1)
           tpl == v.objs[GetTemplate(v, boats[n])]
       IN CreateEntity(v, boats[n],
                       IF tpl.class = "BoatTemplate" THEN BoatFields(tpl)
                       ELSE [kind |-> boats[n]],
                       TRUE).w

\* Scene::Scene: the level, then the light
LoadedScene(boats) ==
  CreateEntity(LoadEntities(LoadTemplates(EmptyWorld, Len(LevelTemplates)),
                            boats, Len(boats)),
               "Light", [kind |-> "Entity"], TRUE).w

\* the game on the level w, before the first frame
InitScene(w, limit, spawn) ==
  /\ IsWorld(w)
  /\ scene = [SceneIdle(limit) EXCEPT !.spawn = spawn]
  /\ inPass = FALSE
  /\ it = END
  /\ lastCall = Call("none", NO_ID, TRUE)
  /\ issued = DOMAIN mEntities
  /\ died = {}
  /\ sent = << >>
  /\ received = EmptyBag

InitGame(boats, limit) ==
  InitScene(LoadedScene(boats), limit, SpawnKinds)

\* Scene::Update(frameTime), up to the call of UpdateAll
SceneUpdate(dt) ==
  /\ Running /\ ~inPass /\ scene.stage \in {"idle", "gui"}
  /\ scene.counted => scene.framesLeft > 0
  /\ scene' = [scene EXCEPT !.frameTime = dt, !.stage = "update",
                            !.framesLeft = IF scene.counted THEN @ - 1 ELSE @]
  /\ it' = FirstKey(mEntities)
  /\ inPass' = (FirstKey(mEntities) # END)
  /\ died' = {}
  /\ lastCall' = Call("UpdateAll", NO_ID, TRUE)
  /\ UNCHANGED <<mEntityTemplates, tmplObjs, mEntities, mNextID, mLastError,
                 mMessages, mEvadeTimer, fault, issued, sent, received>>

\* a DeliverMessage from SYSTEM_ID to each boat of S
RECURSIVE DeliverToAll(_, _, _)
DeliverToAll(w, S, type) ==
  IF S = {} THEN w
  ELSE LET b == CHOOSE x \in S : \A y \in S : x <= y
       IN DeliverToAll(DeliverMessage(w, SYSTEM_ID, b, type, NoData, "due"),
                       S \ {b}, type)

\* what the player does in a frame: nothing, or Key_1 (start every boat)
SceneInputs ==
  {"none", "Key_1"}

\* Scene::Update: the key handling
HandleInput(w, key) ==
  IF key = "Key_1" THEN DeliverToAll(w, AllBoats(w, NO_ID), "Start") ELSE w

\* Scene::AreBoatsActive
AreBoatsActive(w) ==
  \E b \in AllBoats(w, NO_ID) : w.ents[b].mState # "Inactive"

\* Scene::mMaxCrates, Scene::mMaxMines
mMaxCrates == 8

mMaxMines == 10

\* Scene::Update: the crate spawn.  mRandomCrateTimer, a random number of
\* seconds counted down by the frame times, has run out or not.
SpawnCrate(w) ==
  {w} \cup
  IF AreBoatsActive(w) /\ Cardinality(AllCrates(w)) < mMaxCrates
    THEN {CreateEntity(w, "RandomCrate",
                       [kind |-> "RandomCrate", mCrateType |-> type], TRUE).w
          : type \in {"Missile", "Health", "Shield"} \cap scene.spawn}
    ELSE {}

\* Scene::Update: the mine spawn.  mRandomMineTimer has run out or not.
SpawnMine(w) ==
  {w} \cup
  IF AreBoatsActive(w) /\ Cardinality(AllMines(w)) < mMaxMines
       /\ "SeaMine" \in scene.spawn
    THEN {CreateEntity(w, "SeaMine", [kind |-> "SeaMine"], TRUE).w}
    ELSE {}

\* Scene::Update(frameTime), after UpdateAll has returned
SceneAfterUpdateAll ==
  /\ Running /\ ~inPass /\ scene.stage = "update"
  /\ scene' = [scene EXCEPT !.stage = "idle"]
  /\ \E key \in SceneInputs \cap scene.keys :
       \E c \in SpawnCrate(HandleInput(World, key)) :
         \E m \in SpawnMine(c) :
           /\ m.next <= scene.limit
           /\ Commit(m)
           /\ issued' = issued \cup ((DOMAIN m.ents) \ (DOMAIN mEntities))
           /\ lastCall' = Call("SceneUpdate", key, TRUE)
  /\ UNCHANGED <<inPass, it, died, sent, received>>

NextTick ==
  \/ \E dt \in FrameTimes : SceneUpdate(dt)
  \/ UpdateAllStep
  \/ SceneAfterUpdateAll

\* a game on the one-boat level
InitTick ==
  InitGame(PatrolLevel, MaxTickID)

SpecTick ==
  InitTick /\ [][NextTick]_vars

\* a game on the three-boat level
InitBattle ==
  InitGame(BattleLevel, MaxBattleID)

SpecBattle ==
  InitBattle /\ [][NextTick]_vars

\* the buttons of the boat panel in Scene::DrawGUI, and the message each sends
GuiButtons ==
  [b \in {"Stop Boat", "Destroy Boat", "Patrol", "Evade", "Inactive"} |->
     CASE b = "Destroy Boat" -> "Die"
       [] b = "Patrol" -> "Start"
       [] b = "Evade" -> "Evade"
       [] OTHER -> "Stop"]

\* Scene::DrawGUI, called by Scene::Render between two calls of
\* Scene::Update: the player presses a button of the panel of the selected
\* boat
DrawGUI(button, boat) ==
  /\ Running /\ ~inPass /\ scene.stage = "idle"
  /\ GetEntityAs(World, boat, "Boat") # NO_ID
  /\ boat \in scene.panel
  /\ scene' = [scene EXCEPT !.stage = "gui"]
  /\ Commit(DeliverMessage(World, SYSTEM_ID, boat, GuiButtons[button], NoData, "due"))
  /\ lastCall' = Call("DrawGUI", GuiButtons[button], TRUE)
  /\ UNCHANGED <<inPass, it, issued, died, sent, received>>

NextGui ==
  \/ NextTick
  \/ \E button \in DOMAIN GuiButtons, boat \in DOMAIN mEntities : DrawGUI(button, boat)

\* a game on the one-boat level, played with the boat panel, in which mines
\* appear but no crates
InitPanel ==
  InitScene(LoadedScene(PatrolLevel), MaxPanelID, {"SeaMine"})

SpecPanel ==
  InitPanel /\ [][NextGui]_vars

\* a game on the one-boat level in which only Shield crates appear
InitShield ==
  InitScene(LoadedScene(PatrolLevel), MaxShieldID, {"Shield"})

SpecShield ==
  InitShield /\ [][NextTick]_vars

\* the level w when every boat has n missiles left
WithMissiles(w, n) ==
  [w EXCEPT !.ents = [id \in DOMAIN @ |->
                        IF @[id].kind = "Boat"
                          THEN [@[id] EXCEPT !.mMissilesRemaining = n] ELSE @[id]]]

\* A game of two boats of opposite teams and a reload station, taken up when
\* the boats have fired all but a few of their ten missiles and have been
\* stopped; only Missile crates appear.
InitDock ==
  \E n \in 0..MaxStartMissiles :
    InitScene(WithMissiles(LoadedScene(DockLevel), n), MaxDockID, {"Missile"})

SpecDock ==
  InitDock /\ [][NextTick]_vars

\* a game of two boats of opposite teams in which no crate or mine appears
InitDuel ==
  InitScene(LoadedScene(DuelLevel), MaxDuelID, {})

SpecDuel ==
  InitDuel /\ [][NextTick]_vars

\* the first frames of a game on the three-boat level in which only Shield
\* crates appear
InitSquad ==
  /\ IsWorld(LoadedScene(BattleLevel))
  /\ scene = [SceneIdle(MaxSquadID) EXCEPT !.spawn = {"Shield"}, !.counted = TRUE,
                                           !.framesLeft = MaxSquadFrames]
  /\ inPass = FALSE
  /\ it = END
  /\ lastCall = Call("none", NO_ID, TRUE)
  /\ issued = DOMAIN mEntities
  /\ died = {}
  /\ sent = << >>
  /\ received = EmptyBag

SpecSquad ==
  InitSquad /\ [][NextTick]_vars

\* the first frames of a game on the two-boat level in which only Shield
\* crates appear
InitGuard ==
  /\ IsWorld(LoadedScene(DuelLevel))
  /\ scene = [SceneIdle(MaxGuardID) EXCEPT !.spawn = {"Shield"}, !.counted = TRUE,
                                           !.framesLeft = MaxGuardFrames]
  /\ inPass = FALSE
  /\ it = END
  /\ lastCall = Call("none", NO_ID, TRUE)
  /\ issued = DOMAIN mEntities
  /\ died = {}
  /\ sent = << >>
  /\ received = EmptyBag

SpecGuard ==
  InitGuard /\ [][NextTick]_vars

\* the boat that the player selects in the boat panel of the three-boat level
RescuePanel ==
  LET w == LoadedScene(BattleLevel)
  IN {b \in AllBoats(w, NO_ID) : w.ents[b].mTeam = "TeamB"}

\* a game on the three-boat level without crates and mines, in which the
\* player leaves the keyboard alone and works the boat panel on the boat of
\* the other team
InitRescue ==
  /\ IsWorld(LoadedScene(BattleLevel))
  /\ scene = [SceneIdle(MaxRescueID) EXCEPT !.spawn = {}, !.keys = {"none"},
                                            !.panel = RescuePanel]
  /\ inPass = FALSE
  /\ it = END
  /\ lastCall = Call("none", NO_ID, TRUE)
  /\ issued = DOMAIN mEntities
  /\ died = {}
  /\ sent = << >>
  /\ received = EmptyBag

SpecRescue ==
  InitRescue /\ [][NextGui]_vars


(***************************************************************************)
(* The mailbox under arbitrary callers                                     *)
(***************************************************************************)
\* senders, recipients and message kinds the callers of the mailbox use
MsgSenders == {SYSTEM_ID, 2}

MsgRecipients == {2, 3}

MsgKinds == {[type |-> "Start", data |-> NoData],
             [type |-> "Hit", data |-> [launchingBoatID |-> 2]]}

MsgDeliver(from, to, kind) ==
  /\ Len(sent) < MaxSent
  /\ LET tag == Len(sent) + 1
     IN /\ Commit(DeliverMessage(World, from, to, kind.type, kind.data, tag))
        /\ sent' = Append(sent, MakeMessage(from, to, kind.type, kind.data, tag))
  /\ lastCall' = Call("DeliverMessage", to, TRUE)
  /\ UNCHANGED <<scene, inPass, it, issued, died, received>>

\* a call ReceiveMessage(to, &message) of a caller whose message holds what
\* the previous call left in it
MsgReceive(to) ==
  /\ LET before == IF "msg" \in DOMAIN lastCall THEN lastCall.msg ELSE NoMessage
     IN \E r \in ReceiveMessage(World, to, before) :
          /\ Commit(r.w)
          /\ lastCall' = Call("ReceiveMessage", to, r.ret) @@ [msg |-> r.msg]
          /\ received' = IF r.ret
                           THEN received (+) SetToBag({[to |-> to, msg |-> r.msg]})
                           ELSE received
  /\ UNCHANGED <<scene, inPass, it, issued, died, sent>>

NextMsg ==
  \/ \E from \in MsgSenders, to \in MsgRecipients, kind \in MsgKinds :
       MsgDeliver(from, to, kind)
  \/ \E to \in MsgRecipients : MsgReceive(to)

SpecMsg ==
  InitReg /\ [][NextMsg]_vars


(***************************************************************************)
(* The registry and the mailbox under arbitrary callers                    *)
(***************************************************************************)
\* an entity fetches a message addressed to its own ID, as Boat::Update does
PostReceive(id) ==
  /\ id \in DOMAIN mEntities
  /\ MsgReceive(id)

\* the callers create plain entities of one type and post Start messages
PostTypes == {"Tank"}

PostCtor == [kind |-> "Entity"]

PostKind == [type |-> "Start", data |-> NoData]

NextPost ==
  \/ \E type \in PostTypes, proto \in RegProtos :
       ApiCreateEntityTemplate(type, proto, TRUE)
  \/ \E type \in PostTypes : ApiCreateEntity(type, PostCtor, TRUE)
  \/ \E id \in RegIDs : ApiDestroyEntity(id)
  \/ \E to \in MsgRecipients : MsgDeliver(SYSTEM_ID, to, PostKind)
  \/ \E id \in RegIDs : PostReceive(id)

SpecPost ==
  InitReg /\ [][NextPost]_vars


(***************************************************************************)
(* Properties of the registry                                              *)
(***************************************************************************)
LiveIDs == DOMAIN mEntities

LiveCount == Cardinality(DOMAIN mEntities)

\* the entity list of a template object, empty once the object is destroyed
ListOf(objs, obj) ==
  IF objs[obj].alive THEN objs[obj].mEntities ELSE << >>

C1_Unique ==
  \A j \in LiveIDs : \A k \in LiveIDs :
    /\ mEntities[k].mID = k
    /\ (mEntities[j].mID = mEntities[k].mID) => (j = k)

C1_NoReuse ==
  /\ \A id \in (DOMAIN mEntities') \ (DOMAIN mEntities) : id \notin issued
  /\ (lastCall'.op = "CreateEntity" /\ lastCall'.ret # NO_ID)
       => lastCall'.ret \notin issued

\* C1: for every sequence of CreateEntity / DestroyEntity / DestroyTemplate /
\* UpdateAll calls no two live entities have the same EntityID, and an id that
\* CreateEntity has handed out once is never handed out again.
C1_UniqueNeverReused ==
  []C1_Unique /\ [][C1_NoReuse]_vars

\* an id has been destroyed and a later CreateEntity succeeded next to
\* another live entity
C1_Witness ==
  /\ issued \ LiveIDs # {}
  /\ LiveCount >= 2
  /\ lastCall.op = "CreateEntity"
  /\ lastCall.ret \in LiveIDs

C2_Step ==
  (lastCall'.op = "DestroyEntityTemplate" /\ lastCall'.arg \in DOMAIN mEntityTemplates)
    => LET type == lastCall'.arg
           obj == mEntityTemplates[type]
           list == tmplObjs[obj].mEntities
       IN Len(list) >= 1
            => /\ \A id \in SeqRange(list) : id \notin DOMAIN mEntities'
               /\ type \notin DOMAIN mEntityTemplates'
               /\ \A e \in DOMAIN mEntities' : mEntities'[e].tmpl # obj
               /\ Cardinality(DOMAIN mEntities') = LiveCount - Len(list)

\* C2: DestroyTemplate on a template that owns N >= 1 live entities removes
\* all N of them: none of the listed ids is found afterwards, the template
\* is gone, no live entity references it and the number of live entities has
\* dropped by exactly N.
C2_CascadeRemovesAll ==
  [][C2_Step]_vars

\* C5: an EntityID is in a template's entity list if and only if it is a live
\* entity created from that template, and it is there exactly once.
C5_ListsMatchEntities ==
  /\ \A obj \in 1..Len(tmplObjs) :
       \A id \in SeqRange(ListOf(tmplObjs, obj)) :
         /\ id \in LiveIDs
         /\ mEntities[id].tmpl = obj
  /\ \A id \in LiveIDs :
       SeqCount(ListOf(tmplObjs, mEntities[id].tmpl), id) = 1

C6_Step ==
  (lastCall'.op = "CreateEntity" /\ lastCall'.arg \notin DOMAIN mEntityTemplates)
    => /\ lastCall'.ret = NO_ID
       /\ mLastError' # ""
       /\ mEntities' = mEntities
       /\ tmplObjs' = tmplObjs
       /\ mEntityTemplates' = mEntityTemplates
       /\ mNextID' = mNextID
       /\ fault' = fault

\* C6: CreateEntity with a template name that is not registered returns
\* NO_ID, sets a non-empty last error and leaves the entity map, every
\* template's entity list and the next-id counter unchanged, without aborting.
C6_UnknownTemplateRejected ==
  [][C6_Step]_vars

\* CreateEntity has just failed on an unregistered name while entities and
\* another template exist
C6_Witness ==
  /\ lastCall.op = "CreateEntity"
  /\ lastCall.arg \notin DOMAIN mEntityTemplates
  /\ lastCall.ret = NO_ID
  /\ mLastError = "template"
  /\ LiveCount >= 1
  /\ mNextID > FIRST_ENTITY_ID

C7_Step ==
  lastCall'.op = "DestroyEntity"
    => LET id == lastCall'.arg
       IN IF id \notin LiveIDs
            THEN /\ lastCall'.ret = FALSE
                 /\ mEntities' = mEntities
                 /\ tmplObjs' = tmplObjs
                 /\ mEntityTemplates' = mEntityTemplates
            ELSE /\ lastCall'.ret = TRUE
                 /\ id \notin DOMAIN mEntities'
                 /\ \A e \in LiveIDs \ {id} :
                      e \in DOMAIN mEntities' /\ mEntities'[e] = mEntities[e]
                 /\ Len(tmplObjs') = Len(tmplObjs)
                 /\ \A obj \in 1..Len(tmplObjs) :
                      ListOf(tmplObjs', obj) = SeqRemove(ListOf(tmplObjs, obj), id)
                 /\ mEntityTemplates' = mEntityTemplates

\* C7: DestroyEntity(id) returns false and changes nothing when no live
\* entity has that id; otherwise it returns true, the id is no longer found
\* and is absent from its template's list, and every other entity and list
\* entry is unchanged.
C7_DestroyEntityExact ==
  [][C7_Step]_vars

(***************************************************************************)
(* Properties of the mailbox                                               *)
(***************************************************************************)
C8_Accounted ==
  \A i \in 1..Len(sent) :
    LET m == sent[i]
        rx == [to |-> m.to, msg |-> m]
    IN \/ CopiesIn(m, mMessages) = 1 /\ CopiesIn(rx, received) = 0
       \/ CopiesIn(m, mMessages) = 0 /\ CopiesIn(rx, received) = 1

C8_OnlyDelivered ==
  \A rx \in BagToSet(received) :
    /\ rx.msg.to = rx.to
    /\ \E i \in 1..Len(sent) : sent[i] = rx.msg

C8_Step ==
  lastCall'.op = "ReceiveMessage"
    => IF Pending(mMessages, lastCall'.arg) = {}
         THEN lastCall'.ret = FALSE
         ELSE lastCall'.ret = TRUE /\ lastCall'.msg \in Pending(mMessages, lastCall'.arg)

\* C8: a message delivered with DeliverMessage(A, B, type, payload) is
\* returned by ReceiveMessage(B) exactly once, with the same sender, type and
\* payload, and a ReceiveMessage(B) with nothing pending for B signals empty.
C8_DeliveredOnce ==
  [](C8_Accounted /\ C8_OnlyDelivered) /\ [][C8_Step]_vars

\* a delivered message has been returned to its recipient and the next
\* ReceiveMessage for that recipient has signalled empty
C8_Witness ==
  /\ lastCall.op = "ReceiveMessage"
  /\ lastCall.ret = FALSE
  /\ \E rx \in BagToSet(received) : rx.to = lastCall.arg
  /\ Pending(mMessages, lastCall.arg) = {}

C9_Step ==
  (/\ lastCall.op = "ReceiveMessage"
   /\ lastCall.ret = FALSE
   /\ lastCall'.op = "ReceiveMessage"
   /\ lastCall'.arg = lastCall.arg)
    => lastCall'.ret = FALSE

\* C9: after recipient R has called ReceiveMessage(R) until it signalled
\* empty, the receive loop that follows immediately (no DeliverMessage in
\* between) returns no message, whatever was pending for R and for others.
C9_DrainIdempotent ==
  [][C9_Step]_vars

\* R has drained at least two messages and got the empty signal while a
\* message for another recipient is still pending
C9_Witness ==
  /\ lastCall.op = "ReceiveMessage"
  /\ lastCall.ret = FALSE
  /\ Cardinality({rx \in BagToSet(received) : rx.to = lastCall.arg}) >= 2
  /\ \E m \in BagToSet(mMessages) : m.to # lastCall.arg


C4_Step ==
  lastCall'.op = "Update" =>
    \A id \in DOMAIN mEntities : id # lastCall'.arg => id \in DOMAIN mEntities'

\* C4: while an UpdateAll pass is in progress, the Update of one entity never
\* removes a different entity from the registry, also not when a boat that
\* handles CrateCollected{Shield} replaces the shield it has
C4_UpdateRemovesOnlyItself ==
  [][C4_Step]_vars

\* a pending message for a live boat waits for that boat's next update: it
\* was delivered in this pass and the boat's update is still to come ("now"),
\* or in this pass after the boat's update ("next"), or since the boat's
\* update of the pass before and the boat has not been updated since ("due")
C10_Pending ==
  \A m \in BagToSet(mMessages) :
    GetEntityAs(World, m.to, "Boat") # NO_ID =>
      /\ m.tag \in {"now", "next", "due"}
      /\ m.tag = "now" => inPass /\ m.to >= it
      /\ m.tag = "next" => inPass /\ m.to < it
      /\ m.tag = "due" /\ inPass => m.to >= it

\* C10: while the game runs, a message sent during a pass to a live boat is
\* processed at the boat's first drain after the send: in the same pass when
\* the boat's update was still to come, in the next pass (and not in this
\* one) when the boat had already been updated; no drain leaves it behind
C10_ProcessedAtFirstDrain ==
  Running =>
    /\ C10_Pending
    /\ lastCall.op = "Update" => lastCall.got \subseteq {"now", "due"}

\* a boat has drained, in one update, a message sent to it earlier in the
\* same pass and a message sent after its update of the pass before
C10_Witness ==
  /\ lastCall.op = "Update"
  /\ lastCall.got = {"now", "due"}

(***************************************************************************)
(* Boat: hit points, states and messages                                   *)
(***************************************************************************)
\* the boats in the registry
Boats ==
  AllBoats(World, NO_ID)

\* C11: after every update of a boat that has handled only Hit and MineHit
\* messages so far, its HP is at least 0, and a boat whose HP is 0 is in
\* state Destroyed.
C11_HPNeverNegative ==
  \A b \in Boats :
    /\ mEntities[b].mHP >= 0
    /\ mEntities[b].mHP = 0 => mEntities[b].mState = "Destroyed"

\* the entries of the log of the update just made, if the last step was one
Log ==
  IF lastCall.op = "Update" THEN SeqRange(lastCall.log) ELSE {}

\* a Hit handled without a shield takes the attacker's missile damage (20 if
\* the attacker is not a boat of the registry) from the HP; the state changes
\* only if the HP is then <= 0, and then to Destroyed
C12_Step ==
  lastCall'.op = "Update" =>
    \A i \in 1..Len(lastCall'.log) :
      LET e == lastCall'.log[i]
          attacker == GetEntityAs(World, e.data.launchingBoatID, "Boat")
          damage == IF attacker # NO_ID THEN mEntities[attacker].mMissileDamage
                    ELSE 20
      IN e.type = "Hit" /\ e.before.mShieldEntityID = NO_ID =>
           /\ e.after.mHP = e.before.mHP - damage
           /\ e.after.mHP > 0 => e.after.mState = e.before.mState
           /\ e.after.mHP <= 0 => e.after.mState = "Destroyed"

\* C12: a Hit handled by a boat without a shield subtracts the attacker's
\* missile damage (20 if the attacker is not a live boat) from HP; if HP stays
\* above 0 the state is unchanged, if HP becomes <= 0 the state becomes
\* Destroyed.
C12_HitWithoutShield ==
  [][C12_Step]_vars

\* a boat that was not Destroyed has handled a Hit that took its last HP
C12_Witness ==
  \E e \in Log : /\ e.type = "Hit" /\ e.before.mShieldEntityID = NO_ID
                 /\ e.before.mState # "Destroyed" /\ e.before.mHP > 0
                 /\ e.after.mHP <= 0 /\ e.after.mState = "Destroyed"

\* a boat that is Destroyed is still Destroyed after the step unless the step
\* removed it, and a message it handles while Destroyed changes nothing in it
C13_Step ==
  /\ \A b \in Boats :
       mEntities[b].mState = "Destroyed" /\ b \in DOMAIN mEntities'
         => mEntities'[b].mState = "Destroyed"
  /\ lastCall'.op = "Update" =>
       \A i \in 1..Len(lastCall'.log) :
         LET e == lastCall'.log[i]
         IN e.before.mState = "Destroyed"
            /\ e.type \in {"Start", "Stop", "Evade", "Reload", "TargetPoint", "MineHit",
                           "Help", "Hit", "CrateCollected"}
            => e.after = e.before

\* C13: once a boat's state is Destroyed it stays Destroyed in every later
\* tick until the boat is removed from the registry; no message it receives
\* afterwards moves it to another state or is processed as gameplay.
C13_DestroyedIsFinal ==
  [][C13_Step]_vars

\* the Shield entities of the registry that were created for boat b
ShieldsOf(b) ==
  {s \in DOMAIN mEntities : /\ mEntities[s].kind = "Shield"
                            /\ mEntities[s].mParentBoatID = b}

\* C14: at every point of every run at most one live Shield entity is
\* attached to a given boat.
C14_OneShieldPerBoat ==
  \A b \in Boats : Cardinality(ShieldsOf(b)) <= 1

\* an update of a boat that was in Patrol without a missile and has received
\* no message leaves the boat in Reloading
C15_Step ==
  \A b \in Boats :
    /\ mEntities[b].mState = "Patrol" /\ mEntities[b].mMissilesRemaining = 0
    /\ lastCall'.op = "Update" /\ lastCall'.arg = b /\ lastCall'.log = << >>
    /\ b \in DOMAIN mEntities'
    => mEntities'[b].mState = "Reloading"

\* C15: a boat that starts a tick in Patrol with zero missiles remaining is
\* in Reloading at the end of that tick, without having received any message.
C15_PatrolWithoutMissilesReloads ==
  [][C15_Step]_vars

\* a Hit handled by a boat whose mShieldEntityID names a shield changes
\* nothing in the boat and delivers no message
C16_Absorbed ==
  \A e \in Log : e.type = "Hit" /\ e.before.mShieldEntityID # NO_ID =>
                   /\ e.after = e.before
                   /\ e.sent = 0

C17_MineHit ==
  \A e \in Log : e.type = "MineHit" =>
    /\ e.after.mHP = e.before.mHP - (IF e.before.mShieldEntityID = NO_ID THEN 50 ELSE 25)
    /\ e.after.mHP <= 0 => e.after.mState = "Destroyed"
    /\ e.after.mHP > 0 => e.after.mState = "Wiggle" /\ e.after.mTimer = 2

C18_NonNegative ==
  \A b \in Boats : mEntities[b].mMissilesRemaining >= 0

\* An update of a boat that launches a missile takes one missile from the
\* count the boat had when it had handled its messages, or leaves the count
\* at 0; an update that ends a reload at a station sets the count to 10.
C18_Step ==
  \A b \in Boats :
    lastCall'.op = "Update" /\ lastCall'.arg = b /\ b \in DOMAIN mEntities' =>
      LET log == lastCall'.log
          mid == IF log = << >> THEN mEntities[b] ELSE log[Len(log)].after
          post == mEntities'[b]
          launched == {m \in DOMAIN mEntities' \ DOMAIN mEntities :
                         /\ mEntities'[m].kind = "Missile"
                         /\ mEntities'[m].mLaunchingBoatID = b}
      IN /\ launched # {} =>
              post.mMissilesRemaining = IF mid.mMissilesRemaining > 0
                                          THEN mid.mMissilesRemaining - 1 ELSE 0
         /\ mid.mState = "Reloading" /\ post.mState = "Patrol"
            /\ AllReloadStations(World) # {}
            => post.mMissilesRemaining = 10

\* C18: a boat's missile count is never negative; spending a missile at
\* count 0 leaves the count at 0, and a completed reload sets it to 10.
C18_MissileCount ==
  [](Running => C18_NonNegative) /\ [][C18_Step]_vars

\* a boat that began with at most one missile has completed a reload
C18_Witness ==
  /\ lastCall.op = "Update"
  /\ GetEntityAs(World, lastCall.arg, "Boat") # NO_ID
  /\ mEntities[lastCall.arg].mMissilesRemaining = 10
  /\ mEntities[lastCall.arg].mState = "Patrol"

\* what a Start does to the boat that handles it
C19_Start ==
  \A e \in Log : e.type = "Start" =>
    e.after.mState = IF e.before.mState = "Inactive" THEN "Patrol" ELSE e.before.mState

\* C19: a Start message moves a boat to Patrol only when its state is
\* Inactive; handled in any other state it leaves the state unchanged.
C19_StartOnlyFromInactive ==
  Running => C19_Start

\* a boat that was sinking has handled a Start and goes on sinking
C19_Witness ==
  /\ Running
  /\ \E e \in Log : /\ e.type = "Start" /\ e.before.mState = "Destroyed"
                    /\ e.after.mState = "Destroyed"

\* what a Help does to the boat that handles it
C20_Help ==
  \A e \in Log : e.type = "Help" =>
    IF e.before.mState \notin {"Aim", "Destroyed"}
      THEN /\ e.after.mState = "MoveToAssist"
           /\ e.after.moveToEnemyBoat = e.data.enemyBoatID
      ELSE /\ e.after.mState = e.before.mState
           /\ e.after.moveToEnemyBoat = e.before.moveToEnemyBoat

\* C20: a Help message moves a boat to MoveToAssist toward the reported enemy
\* exactly when its state is neither Aim nor Destroyed; a boat in Aim or
\* Destroyed keeps its state and its assist target.
C20_HelpMovesToAssist ==
  Running => C20_Help

(***************************************************************************)
(* Boat: behaviours                                                        *)
(***************************************************************************)
\* An update of a boat that is in Aim when it has handled its messages: when
\* the countdown expires and the target is a boat of the registry, one
\* missile is created, the count goes down by one and the boat is in Evade;
\* when the target is no boat of the registry, no missile is created and the
\* boat is in Patrol.
C21_Step ==
  \A b \in Boats :
    lastCall'.op = "Update" /\ lastCall'.arg = b /\ b \in DOMAIN mEntities' =>
      LET log == lastCall'.log
          mid == IF log = << >> THEN mEntities[b] ELSE log[Len(log)].after
          post == mEntities'[b]
          target == GetEntityAs(World, mid.mTargetBoat, "Boat")
          created == {m \in DOMAIN mEntities' \ DOMAIN mEntities :
                        mEntities'[m].kind = "Missile"}
      IN mid.mState = "Aim" =>
           /\ target # NO_ID /\ mid.mTimer - scene.frameTime <= 0 =>
                /\ Cardinality(created) = 1
                /\ post.mMissilesRemaining = mid.mMissilesRemaining - 1
                /\ post.mState = "Evade"
           /\ target = NO_ID =>
                /\ created = {}
                /\ post.mState = "Patrol"

\* C21: in the tick in which a boat's Aim countdown expires and its target
\* still exists, the boat creates one Missile, decrements its own missile
\* count by one and moves to Evade; if the target no longer exists the boat
\* returns to Patrol without creating a missile.
C21_AimFires ==
  [][C21_Step]_vars

\* In a game without the boat panel Evade is entered from UpdateAim alone,
\* with mTimer at 0 or below, and UpdateEvade adds the tick time to mTimer:
\* mTimer is at most the time the boat has been in Evade.  An update of a
\* boat in Evade that brings this time to 5 s takes the boat to PickupCrate.
C22_Step ==
  \A b \in Boats :
    lastCall'.op = "Update" /\ lastCall'.arg = b /\ b \in DOMAIN mEntities' =>
      LET log == lastCall'.log
          mid == IF log = << >> THEN mEntities[b] ELSE log[Len(log)].after
          post == mEntities'[b]
      IN mid.mState = "Evade" /\ mid.mTimer + scene.frameTime >= 5 =>
           post.mState = "PickupCrate"

\* C22: a boat in Evade that has not reached its evade point leaves Evade for
\* PickupCrate when 5 s of tick time have elapsed since that boat entered
\* Evade; the timeout is measured per boat and is unaffected by other boats
\* being in Evade at the same time.
C22_EvadeTimeout ==
  [][C22_Step]_vars

\* An update of a boat that is in Reloading when it has handled its messages:
\* with a reload station in the registry, the boat is refilled or back in
\* Patrol only if this update brings the time it has been stopped within
\* range to 5 s, and then it is both; with no reload station the boat is in
\* Patrol with the missiles it had.
C23_Step ==
  \A b \in Boats :
    lastCall'.op = "Update" /\ lastCall'.arg = b /\ b \in DOMAIN mEntities' =>
      LET log == lastCall'.log
          mid == IF log = << >> THEN mEntities[b] ELSE log[Len(log)].after
          post == mEntities'[b]
          refilled == post.mMissilesRemaining # mid.mMissilesRemaining
      IN mid.mState = "Reloading" =>
           IF AllReloadStations(World) # {}
             THEN /\ refilled \/ post.mState = "Patrol" => post.waited >= 5
                  /\ post.waited >= 5 => /\ post.mMissilesRemaining = 10
                                         /\ post.mState = "Patrol"
             ELSE /\ ~refilled
                  /\ post.mState = "Patrol"

\* C23: a boat in Reloading refills its missiles and returns to Patrol only
\* after it has stayed stopped within 40 units of the nearest ReloadStation
\* for 5 s of tick time counted from when it came within range; if no
\* ReloadStation exists it returns to Patrol without refilling.
C23_ReloadAfterWaiting ==
  [][C23_Step]_vars

\* the main loop goes on calling Scene::Update as long as the program runs;
\* what the player does in the boat panel is up to the player
LivePanel ==
  SpecPanel /\ WF_vars(NextTick)

\* C24: under continuing ticks, every boat that enters Destroyed is
\* eventually removed from the registry: after the fixed sinking duration
\* its update reports "destroy me" and GetEntity on its ID returns null from
\* then on.
C24_DestroyedBoatsAreRemoved ==
  \A b \in FIRST_ENTITY_ID..MaxPanelID :
    /\ (GetEntityAs(World, b, "Boat") # NO_ID /\ mEntities[b].mState = "Destroyed")
         ~> (b \notin DOMAIN mEntities \/ ~ENABLED NextTick)
    /\ [](b \in issued /\ b \notin DOMAIN mEntities => [](b \notin DOMAIN mEntities))

\* the messages of the mailbox B that entity from has sent
SentBy(B, from) ==
  LET S == {m \in BagToSet(B) : m.from = from}
  IN [m \in S |-> B[m]]

\* An update of a missile delivers nothing or one Hit, to a boat that is not
\* its launcher and with the launcher's ID as data; the missile has sent
\* nothing before, and if it reports "destroy me", as it does when it delivers
\* a Hit, it has left the registry when the update is over.
C25_Step ==
  \A id \in DOMAIN mEntities :
    mEntities[id].kind = "Missile" /\ lastCall'.op = "Update" /\ lastCall'.arg = id =>
      LET out == SentBy(mMessages', id)
      IN /\ SentBy(mMessages, id) = EmptyBag
         /\ BagCardinality(out) <= 1
         /\ \A m \in BagToSet(out) :
              /\ m.type = "Hit"
              /\ GetEntityAs(World, m.to, "Boat") # NO_ID
              /\ m.to # mEntities[id].mLaunchingBoatID
              /\ m.data = [launchingBoatID |-> mEntities[id].mLaunchingBoatID]
              /\ ~lastCall'.ret
         /\ ~lastCall'.ret => id \notin DOMAIN mEntities'
         /\ lastCall'.ret => id \in DOMAIN mEntities'

\* C25: a Missile delivers at most one Hit message in its lifetime, only to a
\* boat other than its launcher, with the launcher's ID as payload, and it is
\* destroyed in the same update that delivers the Hit; a missile that falls
\* below the minimum altitude is destroyed without delivering any message.
C25_MissileHitsOnce ==
  [][C25_Step]_vars

\* a missile has delivered its Hit and has left the registry, while a missile
\* launched earlier or later is still in flight
C25_Witness ==
  /\ lastCall.op = "Update" /\ ~lastCall.ret
  /\ lastCall.arg \notin DOMAIN mEntities
  /\ \E m \in BagToSet(mMessages) : m.from = lastCall.arg /\ m.type = "Hit"
  /\ \E o \in DOMAIN mEntities : mEntities[o].kind = "Missile"

\* An update of a crate either delivers nothing and keeps the crate, or
\* delivers one CrateCollected with the kind of the crate to one boat and
\* takes the crate out of the registry; the crate has sent nothing before.
C26_Step ==
  \A id \in DOMAIN mEntities :
    mEntities[id].kind = "RandomCrate" /\ lastCall'.op = "Update" /\ lastCall'.arg = id =>
      LET out == SentBy(mMessages', id)
      IN /\ SentBy(mMessages, id) = EmptyBag
         /\ \A m \in BagToSet(out) :
              /\ m.type = "CrateCollected"
              /\ GetEntityAs(World, m.to, "Boat") # NO_ID
              /\ m.data = [type |-> mEntities[id].mCrateType]
         /\ IF lastCall'.ret
              THEN out = EmptyBag /\ id \in DOMAIN mEntities'
              ELSE BagCardinality(out) = 1 /\ id \notin DOMAIN mEntities'

\* C26: a RandomCrate delivers exactly one CrateCollected message carrying its
\* kind, to exactly one boat that is within its collision radius, and is
\* removed from the registry in that same update: no crate is ever collected
\* by two boats, even when several boats are in range in the same tick.
C26_CrateCollectedOnce ==
  [][C26_Step]_vars

\* a crate has been collected in a game of three boats and has left the
\* registry
C26_Witness ==
  /\ lastCall.op = "Update" /\ ~lastCall.ret
  /\ lastCall.arg \notin DOMAIN mEntities
  /\ \E m \in BagToSet(mMessages) : m.from = lastCall.arg /\ m.type = "CrateCollected"
  /\ Cardinality(Boats) = 3

\* a Hit that takes the HP of the boat that handles it to 0 or below
\* delivers no message
C27_NoHelp ==
  \A e \in Log : e.type = "Hit" /\ e.after.mHP # e.before.mHP /\ e.after.mHP <= 0 =>
                   e.sent = 0

\* C27: a boat whose HP drops to <= 0 while handling a Hit (and which
\* therefore goes to Destroyed) does not broadcast Help for that Hit; Help is
\* broadcast only on the 50% branch when HP remains above 0.
C27_NoHelpFromDestroyedBoat ==
  Running => C27_NoHelp

\* An update of a boat that is in MoveToAssist when it has handled its
\* messages: if the reported enemy is no boat of the registry or is
\* Destroyed, the boat is in Patrol; otherwise it is in Aim (within 120
\* units) or still in MoveToAssist.
C28_Step ==
  \A b \in Boats :
    lastCall'.op = "Update" /\ lastCall'.arg = b /\ b \in DOMAIN mEntities' =>
      LET log == lastCall'.log
          mid == IF log = << >> THEN mEntities[b] ELSE log[Len(log)].after
          post == mEntities'[b]
          enemy == GetEntityAs(World, mid.moveToEnemyBoat, "Boat")
      IN mid.mState = "MoveToAssist" =>
           IF enemy = NO_ID \/ mEntities[enemy].mState = "Destroyed"
             THEN post.mState = "Patrol"
             ELSE post.mState \in {"Aim", "MoveToAssist"}

\* C28: a boat in MoveToAssist returns to Patrol in the first tick in which
\* the reported enemy is no longer in the registry or is in state Destroyed,
\* and moves to Aim in the first tick in which it is within 120 units of a
\* still-live enemy.
C28_MoveToAssistEnds ==
  [][C28_Step]_vars

\* an update of a boat that creates a Missile finds at least one missile in
\* the count the boat has when it has handled its messages
C29_Step ==
  \A b \in Boats :
    lastCall'.op = "Update" /\ lastCall'.arg = b =>
      LET log == lastCall'.log
          mid == IF log = << >> THEN mEntities[b] ELSE log[Len(log)].after
          launched == {m \in DOMAIN mEntities' \ DOMAIN mEntities :
                         mEntities'[m].kind = "Missile"}
      IN launched # {} => mid.mMissilesRemaining >= 1

\* C29: a boat creates a Missile entity only in a tick in which its missile
\* count is at least 1 before firing: no path (Patrol scan with zero
\* missiles, Help -> MoveToAssist -> Aim, crate/reload interleavings) lets a
\* boat fire with zero missiles remaining.
C29_NoFiringWithoutMissiles ==
  [][C29_Step]_vars

\* a Hit that leaves the HP of the boat as it was is handled while a Shield
\* entity of that boat is in the registry
C30_Absorbed ==
  \A e \in Log : e.type = "Hit" /\ e.after.mHP = e.before.mHP => e.shields # {}

\* C30: a Hit is absorbed (no HP change) only if, at the moment the boat
\* handles it, a live Shield entity owned by that boat exists in the registry:
\* after a shield has expired or been removed, a Hit handled by its former
\* owner always deals damage, whatever the order of the pending Hit,
\* ShieldDestroyed and CrateCollected messages.
C30_AbsorbedOnlyByLiveShield ==
  Running => C30_Absorbed

(***************************************************************************)
(* Registry and mailbox: what callers may rely on                          *)
(***************************************************************************)
\* C31: after any sequence of CreateTemplate, CreateEntity, DestroyEntity and
\* DestroyTemplate calls, every live entity's template is a template
\* currently registered in the registry, including after CreateTemplate
\* replaces an existing template of the same name that still has live
\* entities.
C31_LiveEntitiesHaveRegisteredTemplate ==
  Running =>
    \A id \in DOMAIN mEntities :
      \E type \in DOMAIN mEntityTemplates :
        mEntityTemplates[type] = mEntities[id].tmpl

\* a call of CreateEntityTemplate that returns nullptr leaves
\* mEntityTemplates as it was
C32_Step ==
  lastCall'.op = "CreateEntityTemplate" /\ lastCall'.ret = 0 =>
    mEntityTemplates' = mEntityTemplates

\* C32: a CreateTemplate call that fails (returns null and sets the
\* last-error string) leaves the set of registered templates unchanged,
\* including when a template with the requested name was already registered.
C32_FailedCreateTemplateChangesNothing ==
  [][C32_Step]_vars

(***************************************************************************)
(* Boat: targets                                                           *)
(***************************************************************************)
\* an update of a boat that is in PickupCrate with a target crate when it has
\* handled its messages finds that crate in the registry
C33_Step ==
  \A b \in Boats :
    lastCall'.op = "Update" /\ lastCall'.arg = b =>
      LET log == lastCall'.log
          mid == IF log = << >> THEN mEntities[b] ELSE log[Len(log)].after
      IN mid.mState = "PickupCrate" /\ mid.mTargetCrate # NO_ID =>
           GetEntityAs(World, mid.mTargetCrate, "RandomCrate") # NO_ID

\* C33: whenever a boat in PickupCrate reads its target crate (ID, position
\* or collision radius), that crate is still a live entity: a crate that was
\* collected by another boat or otherwise destroyed is never accessed
\* afterwards by a boat that was still targeting it.
C33_TargetCrateIsLive ==
  [][C33_Step]_vars

\* an update that takes a boat from MoveToAssist to Aim leaves the boat with
\* the enemy reported in the Help as its target
C34_Step ==
  \A b \in Boats :
    lastCall'.op = "Update" /\ lastCall'.arg = b /\ b \in DOMAIN mEntities' =>
      LET log == lastCall'.log
          mid == IF log = << >> THEN mEntities[b] ELSE log[Len(log)].after
          post == mEntities'[b]
      IN mid.mState = "MoveToAssist" /\ post.mState = "Aim" =>
           post.mTargetBoat = mid.moveToEnemyBoat

\* C34: when a boat moves from MoveToAssist to Aim, the boat it then aims at
\* and fires on is the enemy reported in the Help message that started the
\* assist, not a target remembered from an earlier Patrol detection.
C34_AssistAimsAtReportedEnemy ==
  [][C34_Step]_vars

(* Boat: hit points *)
\* C35: a boat's HP never exceeds its template's max HP in any reachable
\* state, in particular after handling any number of CrateCollected{Health}
\* messages.
C35_HPAtMostMax ==
  \A b \in Boats : mEntities[b].mHP <= tmplObjs[mEntities[b].tmpl].mMaxHP

(* UpdateAll: who is visited *)
\* an update of a pass that does not abort the program is for an entity
\* with a higher ID than the one before it in the pass, no entity of the
\* registry lies between the two (or before the first), and the update that
\* ends the pass leaves behind no unvisited entity that was there before it
C36_Step ==
  lastCall'.op = "Update" /\ fault' # "crashed" =>
    LET a == lastCall'.arg
    IN /\ \A e \in DOMAIN mEntities :
            e < a => lastCall.op = "Update" /\ e <= lastCall.arg
       /\ lastCall.op = "Update" => lastCall.arg < a
       /\ ~inPass' =>
            \A e \in (DOMAIN mEntities) \cap (DOMAIN mEntities') : e <= a

\* C36: in one UpdateAll pass no entity has its Update invoked more than
\* once, and every entity that is live at the start of the pass and still
\* live when the iteration reaches it has its Update invoked exactly once,
\* also when entities (missiles, shields) are created or destroyed during
\* the pass.
C36_EachEntityUpdatedOnce ==
  [][C36_Step]_vars

\* a boat's update has destroyed the shield the boat had and created a new
\* one, and the pass goes on
C36_Witness ==
  /\ inPass
  /\ lastCall.op = "Update"
  /\ \E i \in DOMAIN lastCall.log :
       LET e == lastCall.log[i]
       IN /\ e.type = "CrateCollected" /\ e.data.type = "Shield"
          /\ e.before.mShieldEntityID # NO_ID
          /\ e.before.mShieldEntityID \notin DOMAIN mEntities
          /\ e.shields # {}

(* Mailbox of a destroyed entity *)
\* the entities that have been destroyed
C37_Destroyed ==
  issued \ DOMAIN mEntities

\* no step gives a destroyed entity's ID to an entity, takes a message
\* addressed to it out of the mailbox, or returns such a message to a caller
C37_Step ==
  \A d \in C37_Destroyed :
    /\ d \notin DOMAIN mEntities'
    /\ \A m \in Pending(mMessages, d) : CopiesIn(m, mMessages') >= CopiesIn(m, mMessages)
    /\ \A rx \in BagToSet(received') :
         rx.msg.to = d => CopiesIn(rx, received') = CopiesIn(rx, received)

\* C37: a message addressed to an entity that has been destroyed is never
\* received by any entity afterwards: since IDs are not reused, it stays
\* pending in the mailbox and no later-created entity drains it.
C37_DeadLetterStaysPending ==
  [][C37_Step]_vars

\* an entity with a higher ID than a destroyed one has just called
\* ReceiveMessage while a message for the destroyed one was pending, and
\* that message is still pending
C37_Witness ==
  /\ lastCall.op = "ReceiveMessage"
  /\ lastCall.arg \in DOMAIN mEntities
  /\ \E d \in C37_Destroyed :
       /\ d < lastCall.arg
       /\ \E i \in 1..Len(sent) :
            /\ sent[i].to = d
            /\ CopiesIn(sent[i], mMessages) = 1
            /\ i < Len(sent) \/ lastCall.ret = FALSE

(* Mailbox: what one call changes *)
\* the Message object of the caller before the call
C38_CallerMessage ==
  IF "msg" \in DOMAIN lastCall THEN lastCall.msg ELSE NoMessage

C38_Step ==
  /\ lastCall'.op = "ReceiveMessage" =>
       LET to == lastCall'.arg
       IN IF Pending(mMessages, to) = {}
            THEN /\ lastCall'.ret = FALSE
                 /\ mMessages' = mMessages
                 /\ lastCall'.msg = C38_CallerMessage
            ELSE /\ lastCall'.ret = TRUE
                 /\ lastCall'.msg \in Pending(mMessages, to)
                 /\ mMessages' (+) SetToBag({lastCall'.msg}) = mMessages
  /\ lastCall'.op = "DeliverMessage" =>
       /\ sent' = Append(sent, sent'[Len(sent')])
       /\ sent'[Len(sent')].to = lastCall'.arg
       /\ mMessages' = mMessages (+) SetToBag({sent'[Len(sent')]})

\* C38: ReceiveMessage(to) removes exactly one pending message addressed to
\* `to` when there is one and leaves every other pending message (for `to`
\* and for all other recipients) unchanged; when nothing is pending for `to`
\* it returns false and changes neither the mailbox nor the caller's message;
\* DeliverMessage adds exactly one message and changes no other.
C38_OneMessagePerCall ==
  [][C38_Step]_vars

\* ReceiveMessage has returned one message of a recipient that had two, and
\* a message for another recipient is pending
C38_Witness ==
  /\ lastCall.op = "ReceiveMessage"
  /\ lastCall.ret = TRUE
  /\ Pending(mMessages, lastCall.arg) # {}
  /\ \E m \in BagToSet(mMessages) : m.to # lastCall.arg

=============================================================================
